---- MODULE Spec2Model ----
(***************************************************************************)
(* Falcon-512 signature codec (falcon-rust/src/encoding.rs): the           *)
(* variable-length compressor of the s2 polynomial and its decompressor,   *)
(* modelled bit for bit, bounds checks and integer widths included.        *)
(*                                                                         *)
(* A byte string is a sequence of integers 0..255; bit i of a byte string  *)
(* is counted from 0, most significant bit of each byte first, as          *)
(* BitVec::from_bytes does.  An Option result is a record [tag, val] with  *)
(* tag "Some", "None" or "Panic" (the call unwinds: an index out of        *)
(* bounds, or an arithmetic overflow in a build with overflow checks).     *)
(*                                                                         *)
(* Around the codec, the other parts of the program, each with its own     *)
(* specification and with the others held at rest:                         *)
(*   SignSpec      the signing procedure that calls compress and           *)
(*                 serialises header, salt and payload;                    *)
(*   FirmwareSpec  the main loop of the STM32 firmware (stm32/src/main.rs) *)
(*                 with the message buffer of UsbMessageHandler;           *)
(*   SendSpec      UsbMessageHandler::send_signed_response, the response   *)
(*                 written to the serial port in chunks;                   *)
(*   ReadSpec      UsbMessageHandler::try_read_message and clear_buffer as *)
(*                 the main loop calls them;                               *)
(*   LiveSpec      the main loop with the response written out write by    *)
(*                 write, under the fairness of a processor that runs.     *)
(* Spec is the specification of the codec pipeline.                        *)
(***************************************************************************)
EXTENDS Integers, Sequences, FiniteSets, TLC

VARIABLES
    v,            \* the coefficient vector handed to compress
    byte_length,  \* the byte budget handed to compress
    compressed,   \* the result of compress(v, byte_length)
    slow,         \* the result of compress_slow(v, 8 * byte_length)
    x,            \* the payload bytes handed to decompress
    n,            \* the coefficient count handed to decompress
    recovered,    \* the result of decompress(x, n)
    recompressed, \* the result of compress(recovered, len(x))
    tampered,     \* how the payload was altered on its way to the decoder
    pc,           \* position in the encode / transmit / decode pipeline
    \* signing (falcon512::sign_with_rng and Signature::to_bytes)
    salt,         \* the 40-byte salt drawn from the RNG
    s2,           \* the short polynomial the sampler returned last
    attempts,     \* the number of sampler runs so far
    payload,      \* the result of compress(s2, SigLen - 41)
    sig,          \* the serialised signature
    sign_pc,      \* position in the signing procedure
    \* firmware main loop (stm32/src/main.rs), one step a loop iteration
    state,           \* SigningState
    usb_state,       \* UsbConnectionState
    last_usb_state,  \* the UsbDeviceState seen by the previous iteration
    message_buffer,  \* UsbMessageHandler::message_buffer
    received,        \* the message try_read_message returned last
    confirmed,       \* a button was read high since that message was returned
    button,          \* a button was read high in the last iteration
    signed,          \* the message handed to sign_message in the last iteration
    send_attempts,   \* send_attempts at the end of the last iteration
    sent,            \* the message handed to send_signed_response in the last iteration
    delivered,       \* that call put the whole response on the wire
    \* UsbMessageHandler::send_signed_response, one step a call of serial.write
    message_arg,  \* the message argument
    signature,    \* the signature argument
    public_key,   \* the public_key argument
    plan,         \* the send_chunked calls the function makes for these arguments
    call,         \* which of the function's send_chunked calls is running
    offset,       \* offset of that call
    wire,         \* the bytes the serial port has accepted so far
    partial,      \* some write accepted only part of its chunk
    blocked,      \* some write returned WouldBlock
    \* UsbMessageHandler::try_read_message as the main loop calls it
    arrived,      \* the bytes serial.read delivered since the buffer was last cleared
    read_chunk,   \* the bytes the last serial.read delivered
    returned,     \* what the last call of try_read_message returned
    send_pc       \* "sending", "spinning" (the wait after WouldBlock), "returned"
                  \* (all sent), "failed" (early return), "panicked"

codecVars ==
    <<v, byte_length, compressed, slow, x, n, recovered, recompressed, tampered, pc>>

signVars == <<salt, s2, attempts, payload, sig, sign_pc>>

fwVars ==
    <<state, usb_state, last_usb_state, message_buffer, received, confirmed,
      button, signed, send_attempts, sent, delivered>>

sendVars ==
    <<message_arg, signature, public_key, plan, call, offset, wire, partial,
      blocked, send_pc>>

readVars == <<arrived, read_chunk, returned>>

vars == <<codecVars, signVars, fwVars, sendVars, readVars>>

---------------------------------------------------------------------------
(* Bounds of the model *)

\* longest coefficient vector, and largest coefficient count asked of decompress
MaxN == 3
\* largest byte budget handed to compress
MaxBytes == 5

\* the coefficients the vectors are drawn from: zero, both signs, low bits all
\* set (127), low bits all clear with a unary part (-128, 768: 10 and 15 bits),
\* and the largest magnitude below 2048 (24 bits)
Coeffs == {0, -1, 127, -128, 768, -2047}

---------------------------------------------------------------------------
(* Machine arithmetic *)

RECURSIVE Pow2(_)
Pow2(k) == IF k = 0 THEN 1 ELSE 2 * Pow2(k - 1)

\* the bitwise or of two non-negative integers
RECURSIVE BitOr(_, _)
BitOr(a, b) ==
    IF a = 0 THEN b
    ELSE IF b = 0 THEN a
    ELSE (IF a % 2 = 1 \/ b % 2 = 1 THEN 1 ELSE 0) + 2 * BitOr(a \div 2, b \div 2)

\* a 16-bit pattern read as an i16
ToI16(k) == LET m == k % 65536 IN IF m >= 32768 THEN m - 65536 ELSE m

\* an i16 as its 16-bit pattern
OfI16(k) == k % 65536

Abs(k) == IF k < 0 THEN -k ELSE k

None == [tag |-> "None", val |-> <<>>]
Panic == [tag |-> "Panic", val |-> <<>>]
Some(val) == [tag |-> "Some", val |-> val]
Unset == [tag |-> "Unset", val |-> <<>>]

\* 0-based indexing of a byte string
At(s, i) == s[i + 1]

BitLen(s) == 8 * Len(s)

\* bitvector[i] of BitVec::from_bytes(s), for 0 <= i < BitLen(s)
Bit(s, i) == (At(s, i \div 8) \div Pow2(7 - (i % 8))) % 2

---------------------------------------------------------------------------
(* compress *)

\* compress_coefficient: (length in bits, sign and seven low bits as one byte)
compress_coefficient(coeff) ==
    LET sign == IF coeff < 0 THEN 1 ELSE 0
        abs  == Abs(coeff)
        low  == abs % 128
        high == abs \div 128
    IN  [length |-> 1 + 7 + high + 1, coefficient |-> sign * 128 + low]

\* the sum of the lengths of lcs[lo..hi] (the range is halved, to keep the
\* evaluation shallow for a vector of 512 coefficients)
RECURSIVE SumRange(_, _, _)
SumRange(lcs, lo, hi) ==
    IF lo > hi THEN 0
    ELSE IF lo = hi THEN lcs[lo].length
    ELSE LET mid == (lo + hi) \div 2
         IN  SumRange(lcs, lo, mid) + SumRange(lcs, mid + 1, hi)

SumLengths(lcs) == SumRange(lcs, 1, Len(lcs))

\* the budget test of compress: the coefficients do not fit the allotted bytes
OverBudgetOffByOne(total_length, bl) == total_length >= bl * 8
OverBudgetFloor(total_length, bl) == total_length \div 8 > bl
OverBudget(total_length, bl) == total_length > bl * 8

\* bytes[i] |= val, or a panic when i is outside the buffer
OrInto(bytes, i, val) ==
    IF bytes.tag # "Some" THEN bytes
    ELSE IF i >= Len(bytes.val) THEN Panic
    ELSE Some([bytes.val EXCEPT ![i + 1] = BitOr(@, val)])

\* the two writes that place the sign-and-low byte at bit position counter
WriteCoefficient(bytes, counter, coefficient) ==
    LET cdiv8 == counter \div 8
        cmod8 == counter % 8
        b1 == OrInto(bytes, cdiv8, coefficient \div Pow2(cmod8))
    IN  OrInto(b1, cdiv8 + 1, (coefficient * Pow2(8 - cmod8)) % 256)

\* one round of the loop over all but the last coefficient
JoinCoefficient(bytes, counter, lc) ==
    LET b2 == WriteCoefficient(bytes, counter, lc.coefficient)
        cl == counter + lc.length - 1
        cldiv8 == cl \div 8
        clmod8 == cl % 8
        b3 == OrInto(b2, cldiv8, 128 \div Pow2(clmod8))
    IN  OrInto(b3, cldiv8 + 1, (128 * Pow2(8 - clmod8)) % 256)

\* the last coefficient, whose final write is guarded
JoinLast(bytes, counter, lc, bl) ==
    LET b2 == WriteCoefficient(bytes, counter, lc.coefficient)
        cl == counter + lc.length - 1
        cldiv8 == cl \div 8
        clmod8 == cl % 8
        b3 == OrInto(b2, cldiv8, 128 \div Pow2(clmod8))
        spill == (128 * Pow2(8 - clmod8)) % 256
    IN  IF b3.tag # "Some" THEN b3
        ELSE IF cldiv8 + 1 < bl THEN OrInto(b3, cldiv8 + 1, spill)
        ELSE IF spill # 0 THEN None
        ELSE b3

\* the loop over lcs[lo..hi], carrying the buffer and the bit counter (the
\* range is halved, to keep the evaluation shallow)
RECURSIVE JoinRange(_, _, _, _)
JoinRange(st, lcs, lo, hi) ==
    IF st.bytes.tag # "Some" THEN st
    ELSE IF lo > hi THEN st
    ELSE IF lo = hi
    THEN [bytes |-> JoinCoefficient(st.bytes, st.counter, lcs[lo]),
          counter |-> st.counter + lcs[lo].length]
    ELSE LET mid == (lo + hi) \div 2
         IN  JoinRange(JoinRange(st, lcs, lo, mid), lcs, mid + 1, hi)

\* all but the last coefficient in the loop, then the last one
JoinAll(bytes, counter, lcs, bl) ==
    LET st == JoinRange([bytes |-> bytes, counter |-> counter], lcs, 1, Len(lcs) - 1)
    IN  JoinLast(st.bytes, st.counter, lcs[Len(lcs)], bl)

\* vec![0u8; byte_length]
ZeroBufferShort(bl) == [i \in 1..(bl - 1) |-> 0]
ZeroBuffer(bl) == [i \in 1..bl |-> 0]

compress(vec, bl) ==
    LET lengths_and_coefficients == [i \in 1..Len(vec) |-> compress_coefficient(vec[i])]
        total_length == SumLengths(lengths_and_coefficients)
    IN  IF OverBudget(total_length, bl) THEN None
        ELSE IF vec = <<>> THEN None
        ELSE JoinAll(Some(ZeroBuffer(bl)), 0, lengths_and_coefficients, bl)

---------------------------------------------------------------------------
(* compress_slow *)

\* the bits compress_slow pushes for one coefficient.  s = coeff.abs() is an
\* i16: for -32768 it panics where overflow is checked and stays -32768 where
\* it is not, and then every (s >> i) & 1 is 0 and 0..(s >> 7) is empty
SlowCoefficientBitsForward(coeff, checked) ==
    LET sign == IF coeff < 0 THEN 1 ELSE 0
        s == IF coeff = -32768 THEN -32768 ELSE Abs(coeff)
        lowbits == [k \in 1..7 |-> IF s < 0 THEN 0 ELSE (s \div Pow2(k - 1)) % 2]
        zeros == [k \in 1..(IF s < 0 THEN 0 ELSE s \div 128) |-> 0]
    IN  IF coeff = -32768 /\ checked THEN Panic
        ELSE Some(<<sign>> \o lowbits \o zeros \o <<1>>)
SlowCoefficientBits(coeff, checked) ==
    LET sign == IF coeff < 0 THEN 1 ELSE 0
        s == IF coeff = -32768 THEN -32768 ELSE Abs(coeff)
        lowbits == [k \in 1..7 |-> IF s < 0 THEN 0 ELSE (s \div Pow2(7 - k)) % 2]
        zeros == [k \in 1..(IF s < 0 THEN 0 ELSE s \div 128) |-> 0]
    IN  IF coeff = -32768 /\ checked THEN Panic
        ELSE Some(<<sign>> \o lowbits \o zeros \o <<1>>)

RECURSIVE SlowBits(_, _)
SlowBits(vec, checked) ==
    IF vec = <<>> THEN Some(<<>>)
    ELSE LET head == SlowCoefficientBits(Head(vec), checked)
             rest == SlowBits(Tail(vec), checked)
         IN  IF head.tag # "Some" THEN head
             ELSE IF rest.tag # "Some" THEN rest
             ELSE Some(head.val \o rest.val)

\* BitVec::to_bytes: eight bits a byte, most significant first, the last byte
\* filled with zero bits
ToBytes(bits) ==
    LET bit(i) == IF i <= Len(bits) THEN bits[i] ELSE 0
    IN  [b \in 1..((Len(bits) + 7) \div 8) |->
            bit(8*b - 7) * 128 + bit(8*b - 6) * 64 + bit(8*b - 5) * 32 + bit(8*b - 4) * 16
            + bit(8*b - 3) * 8 + bit(8*b - 2) * 4 + bit(8*b - 1) * 2 + bit(8*b)]

compress_slow(vec, slen, checked) ==
    LET bitvector == SlowBits(vec, checked)
    IN  IF bitvector.tag # "Some" THEN bitvector
        ELSE IF Len(bitvector.val) > slen THEN None
        ELSE Some(ToBytes(bitvector.val \o [k \in 1..(slen - Len(bitvector.val)) |-> 0]))

---------------------------------------------------------------------------
(* decompress *)

\* the longest run of zero bits the rounds before the last accept, exclusive
HighBitsCap == 95

\* "early return if": fewer than nine bits are left at index
EarlyReturnOffByOne(index, len) == index + 9 >= len
EarlyReturn(index, len) == index + 8 >= len

\* "test if coefficient is encoded properly": the negative zero
NegativeZero(sign, low_bits, high_bits) == low_bits = 0 /\ high_bits = 0 /\ sign = -1

\* abort |= ..., the flag carried through the rounds before the last
AbortAssigned(abort, bad) == bad
AbortOr(abort, bad) == abort \/ bad

\* sign * ((high_bits << 7) | low_bits) in i16: the shift drops the bits it
\* pushes out; the product overflows for -1 * -32768, which panics where
\* overflow is checked and wraps where it is not
ComposeInteger(sign, high_bits, low_bits, checked) ==
    LET shifted == OfI16(high_bits * 128)
        ored == ToI16(BitOr(shifted, low_bits))
    IN  IF sign = -1 /\ ored = -32768
        THEN (IF checked THEN Panic ELSE Some(-32768))
        ELSE Some(sign * ored)

\* the seven low bits read in a round before the last: both bytes are indexed
LowBits(s, index) ==
    LET index_div_8 == index \div 8
        index_mod_8 == index % 8
    IN  IF index_div_8 >= Len(s) \/ index_div_8 + 1 >= Len(s) THEN Panic
        ELSE Some((BitOr(At(s, index_div_8) * Pow2(index_mod_8),
                         At(s, index_div_8 + 1) \div Pow2(8 - index_mod_8)) % 256) \div 2)

\* the seven low bits read in the last round: the second byte is read only
\* when the bits straddle two bytes
LowBitsLast(s, index) ==
    LET index_div_8 == index \div 8
        index_mod_8 == index % 8
        first == At(s, index_div_8) * Pow2(index_mod_8)
    IN  IF index_div_8 >= Len(s) THEN Panic
        ELSE IF index_mod_8 # 0 /\ index_div_8 + 1 < Len(s)
        THEN Some((BitOr(first, At(s, index_div_8 + 1) \div Pow2(8 - index_mod_8)) % 256) \div 2)
        ELSE IF index_mod_8 # 0 THEN None
        ELSE Some((first % 256) \div 2)

\* where a scan "while !bitvector[index] { index += 1 }" that starts at lo
\* stops: the least position in lo..hi-1 that holds a set bit, or hi when
\* there is none (found by halving the range, to keep the evaluation shallow)
RECURSIVE FirstSet(_, _, _)
FirstSet(s, lo, hi) ==
    IF lo >= hi THEN hi
    ELSE IF hi = lo + 1 THEN (IF Bit(s, lo) = 1 THEN lo ELSE hi)
    ELSE LET mid == (lo + hi) \div 2
             left == FirstSet(s, lo, mid)
         IN  IF left < mid THEN left ELSE FirstSet(s, mid, hi)

\* "read high bits" in a round before the last: [tag, index, high_bits].
\* After the k-th zero bit the loop returns None when the run has reached the
\* cap or when one bit is left; a run that passes both tests and meets no
\* set bit indexes past the end of the input
HighBits(s, index, high_bits) ==
    LET stop == FirstSet(s, index, BitLen(s))
        run == stop - index
        capped == HighBitsCap - high_bits \in 1..run
        at_end == BitLen(s) - 1 - index \in 1..run
    IN  IF index >= BitLen(s)
        THEN [tag |-> "Panic", index |-> index, high_bits |-> high_bits]
        ELSE IF capped \/ at_end
        THEN [tag |-> "None", index |-> index, high_bits |-> high_bits]
        ELSE IF stop = BitLen(s)
        THEN [tag |-> "Panic", index |-> stop, high_bits |-> high_bits + run]
        ELSE [tag |-> "Some", index |-> stop, high_bits |-> high_bits + run]

\* "read high bits" in the last round; high_bits is an i16 counter that is
\* incremented once for every zero bit read that is not the last bit of the
\* input: the loop returns None when the input ends inside the run, and there
\* is no cap on the length of the run
HighBitsLast(s, index, high_bits, checked) ==
    LET stop == FirstSet(s, index, BitLen(s))
        increments == IF stop = BitLen(s) THEN stop - index - 1 ELSE stop - index
    IN  IF index >= BitLen(s)
        THEN [tag |-> "Panic", index |-> index, high_bits |-> high_bits]
        ELSE IF checked /\ high_bits + increments > 32767
        THEN [tag |-> "Panic", index |-> index + (32767 - high_bits) + 1, high_bits |-> 32767]
        ELSE IF stop = BitLen(s)
        THEN [tag |-> "None", index |-> stop, high_bits |-> ToI16(high_bits + increments)]
        ELSE [tag |-> "Some", index |-> stop, high_bits |-> ToI16(high_bits + increments)]

\* the first byte the second padding loop looks at
PaddingSkipOffByOne(index_div_8, index_mod_8) == index_div_8 + 2
PaddingSkip(index_div_8, index_mod_8) ==
    index_div_8 + 1 - (IF index_mod_8 = 0 THEN 1 ELSE 0)

\* "check padding": TRUE when the unread part of the input holds a set bit
PaddingSet(s, index) ==
    LET index_div_8 == index \div 8
        index_mod_8 == index % 8
    IN  \/ \E idx \in 0..(8 - index_mod_8 - 1) :
              index + idx < BitLen(s) /\ Bit(s, index + idx) = 1
        \/ \E i \in PaddingSkip(index_div_8, index_mod_8)..(Len(s) - 1) : At(s, i) # 0

\* the last round and the padding check
LastRound(s, index0, abort, result, checked) ==
    IF EarlyReturn(index0, BitLen(s)) THEN None
    ELSE IF BitLen(s) = index0 THEN None
    ELSE IF index0 >= BitLen(s) THEN Panic
    ELSE
    LET sign == IF Bit(s, index0) = 1 THEN -1 ELSE 1
        low  == LowBitsLast(s, index0 + 1)
        index7 == index0 + 1 + 7
    IN  IF low.tag # "Some" THEN low
        ELSE IF BitLen(s) = index7 THEN None
        ELSE
        LET high == HighBitsLast(s, index7, 0, checked)
        IN  IF high.tag = "Panic" THEN Panic
            ELSE IF high.tag = "None" THEN None
            ELSE IF abort \/ NegativeZero(sign, low.val, high.high_bits) THEN None
            ELSE
            LET integer == ComposeInteger(sign, high.high_bits, low.val, checked)
            IN  IF integer.tag # "Some" THEN integer
                ELSE IF PaddingSet(s, high.index + 1) THEN None
                ELSE Some(Append(result, integer.val))

\* the rounds before the last: rounds is the number still to run
RECURSIVE Rounds(_, _, _, _, _, _)
Rounds(s, rounds, index0, abort, result, checked) ==
    IF rounds = 0 THEN LastRound(s, index0, abort, result, checked)
    ELSE IF EarlyReturn(index0, BitLen(s)) THEN None
    ELSE IF index0 >= BitLen(s) THEN Panic
    ELSE
    LET sign == IF Bit(s, index0) = 1 THEN -1 ELSE 1
        low  == LowBits(s, index0 + 1)
    IN  IF low.tag # "Some" THEN low
        ELSE
        LET high == HighBits(s, index0 + 1 + 7, 0)
        IN  IF high.tag = "Panic" THEN Panic
            ELSE IF high.tag = "None" THEN None
            ELSE
            LET integer == ComposeInteger(sign, high.high_bits, low.val, checked)
            IN  IF integer.tag # "Some" THEN integer
                ELSE Rounds(s, rounds - 1, high.index + 1,
                            AbortOr(abort, NegativeZero(sign, low.val, high.high_bits)),
                            Append(result, integer.val), checked)

\* decompress(x, n) for n >= 1; checked: the build checks integer overflow
decompress(s, count, checked) == Rounds(s, count - 1, 0, FALSE, <<>>, checked)

---------------------------------------------------------------------------
(* The pipeline: a vector is compressed into a payload, the payload reaches *)
(* the decoder intact, cut short or with one bit flipped, the decoder is    *)
(* asked for some number of coefficients, and what it returns is            *)
(* compressed again.                                                        *)

Vectors == UNION {[1..k -> Coeffs] : k \in 0..MaxN}

\* s with bit i flipped
FlipBitOf(s, i) ==
    [s EXCEPT ![(i \div 8) + 1] =
        IF Bit(s, i) = 1 THEN @ - Pow2(7 - (i % 8)) ELSE @ + Pow2(7 - (i % 8))]

\* vectors with a coefficient beyond the range of a signature: a unary part
\* of 94 and of 95 zero bits (12159, 12160) in the last position and before
\* it, and the most negative i16, whose unary part is 256 zero bits
LongVectors == {<<12160>>, <<12160, 0>>, <<0, 12160>>, <<12159, 0>>, <<-32768>>}

\* the least number of bytes that hold the encoding of vec
BytesFor(vec) ==
    (SumLengths([i \in 1..Len(vec) |-> compress_coefficient(vec[i])]) + 7) \div 8

\* the variables of the other parts of the program, which the codec leaves alone
notCodec == <<signVars, fwVars, sendVars, readVars>>

\* the signer has not been called
SignIdle ==
    /\ salt = <<>>
    /\ s2 = <<>>
    /\ attempts = 0
    /\ payload = Unset
    /\ sig = <<>>
    /\ sign_pc = "idle"

\* the firmware has just entered its main loop and sits there
FirmwareStart ==
    /\ state = "WaitingForMessage"
    /\ usb_state = "Disconnected"
    /\ last_usb_state = "Default"
    /\ message_buffer = <<>>
    /\ received = <<>>
    /\ confirmed = FALSE
    /\ button = FALSE
    /\ signed = None
    /\ send_attempts = 0
    /\ sent = None
    /\ delivered = FALSE

\* send_signed_response has not been called
SendIdle ==
    /\ message_arg = <<>>
    /\ signature = <<>>
    /\ public_key = <<>>
    /\ plan = [calls |-> <<>>, panics |-> FALSE]
    /\ call = 0
    /\ offset = 0
    /\ wire = <<>>
    /\ partial = FALSE
    /\ blocked = FALSE
    /\ send_pc = "idle"

\* try_read_message has not been called
ReadIdle ==
    /\ arrived = <<>>
    /\ read_chunk = <<>>
    /\ returned = Unset

Init ==
    /\ SignIdle
    /\ FirmwareStart
    /\ SendIdle
    /\ ReadIdle
    /\ \/ v \in Vectors /\ byte_length \in 0..MaxBytes
       \/ v \in LongVectors /\ byte_length = BytesFor(v)
    /\ compressed = Unset
    /\ slow = Unset
    /\ x = <<>>
    /\ n = 0
    /\ recovered = Unset
    /\ recompressed = Unset
    /\ tampered = "no"
    /\ pc = "init"

Compress ==
    /\ pc = "init"
    /\ compressed' = compress(v, byte_length)
    /\ pc' = "compressed"
    /\ UNCHANGED <<v, byte_length, slow, x, n, recovered, recompressed, tampered>>
    /\ UNCHANGED notCodec

\* the reference encoder is run on the same input, for comparison
CompressSlow ==
    /\ pc = "compressed"
    /\ \E checked \in BOOLEAN : slow' = compress_slow(v, 8 * byte_length, checked)
    /\ pc' = "compared"
    /\ UNCHANGED <<v, byte_length, compressed, x, n, recovered, recompressed, tampered>>
    /\ UNCHANGED notCodec

Transmit ==
    /\ pc = "compressed"
    /\ compressed.tag = "Some"
    /\ x' = compressed.val
    /\ pc' = "received"
    /\ UNCHANGED <<v, byte_length, compressed, slow, n, recovered, recompressed, tampered>>
    /\ UNCHANGED notCodec

Truncate ==
    /\ pc = "received"
    /\ tampered = "no"
    /\ \E k \in 0..(Len(x) - 1) : x' = SubSeq(x, 1, k)
    /\ tampered' = "truncated"
    /\ UNCHANGED <<v, byte_length, compressed, slow, n, recovered, recompressed, pc>>
    /\ UNCHANGED notCodec

FlipBit ==
    /\ pc = "received"
    /\ tampered = "no"
    /\ \E i \in 0..(BitLen(x) - 1) : x' = FlipBitOf(x, i)
    /\ tampered' = "flipped"
    /\ UNCHANGED <<v, byte_length, compressed, slow, n, recovered, recompressed, pc>>
    /\ UNCHANGED notCodec

Decompress ==
    /\ pc = "received"
    /\ \E count \in 1..MaxN, checked \in BOOLEAN :
          /\ n' = count
          /\ recovered' = decompress(x, count, checked)
    /\ pc' = "decoded"
    /\ UNCHANGED <<v, byte_length, compressed, slow, x, recompressed, tampered>>
    /\ UNCHANGED notCodec

Recompress ==
    /\ pc = "decoded"
    /\ recovered.tag = "Some"
    /\ recompressed' = compress(recovered.val, Len(x))
    /\ pc' = "recompressed"
    /\ UNCHANGED <<v, byte_length, compressed, slow, x, n, recovered, tampered>>
    /\ UNCHANGED notCodec

Next ==
    \/ Compress
    \/ CompressSlow
    \/ Transmit
    \/ Truncate
    \/ FlipBit
    \/ Decompress
    \/ Recompress

Spec == Init /\ [][Next]_vars

---------------------------------------------------------------------------
(* Signing.  falcon512::sign_with_rng forwards to falcon::sign_with_rng,   *)
(* whose module is not part of the sources at hand; the procedure below    *)
(* follows its description (draw the salt; sample until the norm bound is   *)
(* met; compress s2 into the signature length less 41 bytes, sampling       *)
(* again when it does not fit; emit header, salt and payload) and calls     *)
(* compress as defined above.                                               *)

\* the degree of Falcon-512
FalconN == 512
\* the length of a serialised Falcon-512 signature
SigLen == 666
\* the length of the salt
SaltLen == 40
\* the header byte 0x30 | logn of a Falcon-512 signature
SigHeader == 57
\* the bound on the squared norm of (s1, s2)
SigBound == 34034726
\* the cap on the number of sampler runs
RetryCap == 3

\* the coefficients the sampled polynomials are made of
S2Coeffs == {0, -1, -128, 768}

\* the polynomials the sampler may return: the first k coefficients one
\* value, the rest another; 392 coefficients of ten bits and 120 of nine
\* fill the 625 bytes to the last bit, 393 and 119 exceed them by one bit
S2Set ==
    {[i \in 1..FalconN |-> IF i <= k THEN a ELSE b] :
        k \in {392, 393}, a \in S2Coeffs, b \in S2Coeffs}

\* the salts the RNG may return
Salts == {[i \in 1..SaltLen |-> 0], [i \in 1..SaltLen |-> (7 * i) % 256]}

RECURSIVE NormRange(_, _, _)
NormRange(vec, lo, hi) ==
    IF lo > hi THEN 0
    ELSE IF lo = hi THEN vec[lo] * vec[lo]
    ELSE LET mid == (lo + hi) \div 2
         IN  NormRange(vec, lo, mid) + NormRange(vec, mid + 1, hi)

\* the squared Euclidean norm of a polynomial
NormSquared(vec) == NormRange(vec, 1, Len(vec))

\* the retry loop has run its cap of iterations
CapNever(k) == FALSE
CapExhausted(k) == k >= RetryCap

\* header byte, salt, compressed payload
Serialise(header, salt_bytes, payload_bytes) == <<header>> \o salt_bytes \o payload_bytes

notSign == <<codecVars, fwVars, sendVars, readVars>>

\* the codec pipeline is not running
CodecIdle ==
    /\ v = <<>>
    /\ byte_length = 0
    /\ compressed = Unset
    /\ slow = Unset
    /\ x = <<>>
    /\ n = 0
    /\ recovered = Unset
    /\ recompressed = Unset
    /\ tampered = "no"
    /\ pc = "idle"

SignInit ==
    /\ CodecIdle
    /\ FirmwareStart
    /\ SendIdle
    /\ ReadIdle
    /\ salt = <<>>
    /\ s2 = <<>>
    /\ attempts = 0
    /\ payload = Unset
    /\ sig = <<>>
    /\ sign_pc = "salt"

\* step 1: the salt is drawn
DrawSalt ==
    /\ sign_pc = "salt"
    /\ salt' \in Salts
    /\ sign_pc' = "sample"
    /\ UNCHANGED <<s2, attempts, payload, sig>>
    /\ UNCHANGED notSign

\* step 3: one run of the sampler; the pair (s1, s2) is kept when its squared
\* norm is within the bound, and the loop comes round again when it is not
Sample ==
    /\ sign_pc = "sample"
    /\ ~CapExhausted(attempts)
    /\ attempts' = attempts + 1
    /\ \E s1_norm \in {0, SigBound}, poly \in S2Set :
          /\ s2' = poly
          /\ sign_pc' = IF s1_norm + NormSquared(poly) <= SigBound
                        THEN "compress" ELSE "sample"
    /\ UNCHANGED <<salt, payload, sig>>
    /\ UNCHANGED notSign

\* the cap is exhausted: a fatal error, and no signature
Exhausted ==
    /\ sign_pc = "sample"
    /\ CapExhausted(attempts)
    /\ sign_pc' = "failed"
    /\ UNCHANGED <<salt, s2, attempts, payload, sig>>
    /\ UNCHANGED notSign

\* step 4: s2 is compressed into the signature length less header and salt;
\* when it does not fit the procedure goes back to the sampler
CompressS2 ==
    /\ sign_pc = "compress"
    /\ payload' = compress(s2, SigLen - 1 - SaltLen)
    /\ sign_pc' = CASE payload'.tag = "Some" -> "emit"
                     [] payload'.tag = "None" -> "sample"
                     [] OTHER -> "panicked"
    /\ UNCHANGED <<salt, s2, attempts, sig>>
    /\ UNCHANGED notSign

\* step 5: Signature::to_bytes
Emit ==
    /\ sign_pc = "emit"
    /\ sig' = Serialise(SigHeader, salt, payload.val)
    /\ sign_pc' = "done"
    /\ UNCHANGED <<salt, s2, attempts, payload>>
    /\ UNCHANGED notSign

SignNext ==
    \/ DrawSalt
    \/ Sample
    \/ Exhausted
    \/ CompressS2
    \/ Emit

SignSpec == SignInit /\ [][SignNext]_vars

---------------------------------------------------------------------------
(* The firmware main loop (stm32/src/main.rs) and the message buffer of    *)
(* UsbMessageHandler (stm32/src/usb.rs).  One step is one iteration of the *)
(* loop: the USB device state is sampled and a change of it handled, and   *)
(* then, when the connection is ready, the arm of the current SigningState *)
(* runs.  What the USB device reports, what the serial port returns and    *)
(* what the buttons read are inputs chosen freely in every iteration.      *)

\* the capacity of the message buffer (512 in the firmware)
MAX_MESSAGE_SIZE == 3
\* the size of the buffer of one serial read (64 in the firmware)
ReadSize == 2
\* max_attempts of the send loop
max_attempts == 3

\* b'\n', b'\r', b' ', b'\t'
Whitespace == {10, 13, 32, 9}
\* the bytes a host may send: a letter, and the four that are trimmed
MessageBytes == {97} \cup Whitespace

UsbDeviceStates == {"Default", "Addressed", "Configured", "Suspend"}

\* what serial.read returns: Ok(count) with the bytes read, Ok(0),
\* Err(WouldBlock), or another error
ReadResults ==
    {[kind |-> "Ok", data |-> chunk] :
        chunk \in UNION {[1..k -> MessageBytes] : k \in 1..ReadSize}}
    \cup {[kind |-> k, data |-> <<>>] : k \in {"Zero", "WouldBlock", "Err"}}

\* a loop that pops one trailing newline, carriage return, space or tab
TrimOne(buf) ==
    IF buf # <<>> /\ buf[Len(buf)] \in Whitespace
    THEN SubSeq(buf, 1, Len(buf) - 1)
    ELSE buf

\* the while loop that pops trailing newlines, carriage returns, spaces, tabs
RECURSIVE TrimTrailing(_)
TrimTrailing(buf) ==
    IF buf # <<>> /\ buf[Len(buf)] \in Whitespace
    THEN TrimTrailing(SubSeq(buf, 1, Len(buf) - 1))
    ELSE buf

\* try_read_message: the buffer it leaves, what it returns, and whether it
\* called message_buffer.clear()
try_read_message(buf, read) ==
    IF read.kind = "Ok"
    THEN IF Len(buf) + Len(read.data) > MAX_MESSAGE_SIZE
         THEN [buffer |-> <<>>, result |-> None, cleared |-> TRUE]
         ELSE IF \E i \in 1..Len(read.data) : read.data[i] \in {10, 13}
         THEN LET trimmed == TrimTrailing(buf \o read.data)
              IN  IF trimmed # <<>>
                  THEN [buffer |-> trimmed, result |-> Some(trimmed), cleared |-> FALSE]
                  ELSE [buffer |-> <<>>, result |-> None, cleared |-> TRUE]
         ELSE [buffer |-> buf \o read.data, result |-> None, cleared |-> FALSE]
    ELSE IF read.kind = "Err" THEN [buffer |-> <<>>, result |-> None, cleared |-> TRUE]
    ELSE [buffer |-> buf, result |-> None, cleared |-> FALSE]

\* "Check USB device state and handle state changes": what the top of the
\* loop makes of usb_state, last_usb_state, the buffer and the signing state
\* when the device reports current
\* the signing state the disconnect arm leaves
DisconnectStateKept(st) == st
DisconnectState(st) == "WaitingForMessage"

HandleUsbState(current) ==
    IF current = last_usb_state
    THEN [usb |-> usb_state, buffer |-> message_buffer, st |-> state]
    ELSE CASE current = "Default" ->
                [usb |-> "Connecting", buffer |-> message_buffer, st |-> state]
           [] current = "Configured" ->
                IF usb_state # "Connected"
                THEN [usb |-> "Connected", buffer |-> <<>>, st |-> state]
                ELSE [usb |-> usb_state, buffer |-> message_buffer, st |-> state]
           [] current = "Suspend" ->
                [usb |-> "Suspended", buffer |-> message_buffer, st |-> state]
           [] OTHER ->
                IF usb_state # "Disconnected"
                THEN [usb |-> "Disconnected", buffer |-> <<>>, st |-> DisconnectState(state)]
                ELSE [usb |-> usb_state, buffer |-> message_buffer, st |-> state]

usb_ready(usb) == usb = "Connected" \/ usb = "Connecting"

\* button_key.is_high() || button_boot.is_high()
ButtonIgnored(key_high, boot_high) == TRUE
ButtonPressed(key_high, boot_high) == key_high \/ boot_high

\* the send loop without the break that ends its body: the send is repeated
\* until send_attempts reaches max_attempts
SendLoopRetrying(attempts_so_far, usb) ==
    IF ~(attempts_so_far < max_attempts) THEN attempts_so_far
    ELSE IF usb = "Disconnected" THEN attempts_so_far
    ELSE max_attempts

\* the send loop of the Signing arm: send_attempts when the loop is left
\* (the body ends in an unconditional break, so it runs at most once)
SendLoop(attempts_so_far, usb) ==
    IF ~(attempts_so_far < max_attempts) THEN attempts_so_far
    ELSE IF usb = "Disconnected" THEN attempts_so_far
    ELSE attempts_so_far + 1

notFirmware == <<codecVars, signVars, sendVars, readVars>>

FirmwareInit ==
    /\ CodecIdle
    /\ SignIdle
    /\ SendIdle
    /\ ReadIdle
    /\ FirmwareStart

\* an iteration that ends at "continue" before the match: the connection is
\* suspended or not ready
IterationNotReady ==
    \E current \in UsbDeviceStates :
        LET h == HandleUsbState(current) IN
        /\ ~usb_ready(h.usb)
        /\ last_usb_state' = current
        /\ usb_state' = h.usb
        /\ message_buffer' = h.buffer
        /\ state' = h.st
        /\ button' = FALSE
        /\ signed' = None
        /\ send_attempts' = 0
        /\ sent' = None
        /\ delivered' = FALSE
        /\ UNCHANGED <<received, confirmed>>
        /\ UNCHANGED notFirmware

\* the WaitingForMessage arm
IterationWaiting ==
    \E current \in UsbDeviceStates, read \in ReadResults :
        LET h == HandleUsbState(current)
            r == try_read_message(h.buffer, read)
        IN
        /\ usb_ready(h.usb)
        /\ h.st = "WaitingForMessage"
        /\ last_usb_state' = current
        /\ usb_state' = h.usb
        /\ message_buffer' = r.buffer
        /\ state' = IF r.result.tag = "Some" THEN "MessageReceived" ELSE "WaitingForMessage"
        /\ received' = IF r.result.tag = "Some" THEN r.result.val ELSE received
        /\ confirmed' = IF r.result.tag = "Some" THEN FALSE ELSE confirmed
        /\ button' = FALSE
        /\ signed' = None
        /\ send_attempts' = 0
        /\ sent' = None
        /\ delivered' = FALSE
        /\ UNCHANGED notFirmware

\* the MessageReceived arm
IterationMessageReceived ==
    \E current \in UsbDeviceStates, poll_tick \in BOOLEAN,
       key_high \in BOOLEAN, boot_high \in BOOLEAN :
        LET h == HandleUsbState(current)
            lost == poll_tick /\ h.usb = "Disconnected"
            pressed == ButtonPressed(key_high, boot_high)
        IN
        /\ usb_ready(h.usb)
        /\ h.st = "MessageReceived"
        /\ last_usb_state' = current
        /\ usb_state' = h.usb
        /\ message_buffer' = IF lost THEN <<>> ELSE h.buffer
        /\ state' = IF lost THEN "WaitingForMessage"
                    ELSE IF pressed THEN "Signing"
                    ELSE "MessageReceived"
        /\ button' = (~lost /\ (key_high \/ boot_high))
        /\ confirmed' = (confirmed \/ (~lost /\ (key_high \/ boot_high)))
        /\ signed' = None
        /\ send_attempts' = 0
        /\ sent' = None
        /\ delivered' = FALSE
        /\ UNCHANGED received
        /\ UNCHANGED notFirmware

\* the Signing arm; send_signed_response returns nothing, and whether it
\* put the whole response on the wire (send_ok) or returned early is an input
IterationSigning ==
    \E current \in UsbDeviceStates, send_ok \in BOOLEAN :
        LET h == HandleUsbState(current)
            lost == h.usb = "Disconnected"
            message == h.buffer
            attempts_made == SendLoop(0, h.usb)
        IN
        /\ usb_ready(h.usb)
        /\ h.st = "Signing"
        /\ last_usb_state' = current
        /\ usb_state' = h.usb
        /\ message_buffer' = <<>>
        /\ state' = "WaitingForMessage"
        /\ signed' = IF lost THEN None ELSE Some(message)
        /\ send_attempts' = IF lost THEN 0 ELSE attempts_made
        /\ sent' = IF ~lost /\ attempts_made > 0 THEN Some(message) ELSE None
        /\ delivered' = (~lost /\ attempts_made > 0 /\ send_ok)
        /\ button' = FALSE
        /\ confirmed' = FALSE
        /\ UNCHANGED received
        /\ UNCHANGED notFirmware

FirmwareNext ==
    \/ IterationNotReady
    \/ IterationWaiting
    \/ IterationMessageReceived
    \/ IterationSigning

FirmwareSpec == FirmwareInit /\ [][FirmwareNext]_vars

---------------------------------------------------------------------------
(* The receiving side of UsbMessageHandler as the main loop drives it       *)
(* (stm32/src/usb.rs, stm32/src/main.rs): try_read_message is called in     *)
(* state WaitingForMessage only, and every assignment of WaitingForMessage  *)
(* to the state comes with a clear_buffer; the Configured arm of the USB    *)
(* state handling calls clear_buffer and leaves the state alone.            *)

\* the firmware variables the receiving side does not touch
fwRest ==
    <<usb_state, last_usb_state, confirmed, button, signed, send_attempts, sent,
      delivered>>

notRead == <<codecVars, signVars, sendVars, fwRest>>

ReadInit ==
    /\ CodecIdle
    /\ SignIdle
    /\ SendIdle
    /\ FirmwareStart
    /\ ReadIdle

\* if let Some(_message) = usb_handler.try_read_message(&mut serial)
TryReadMessage ==
    \E read \in ReadResults :
        LET r == try_read_message(message_buffer, read) IN
        /\ state = "WaitingForMessage"
        /\ message_buffer' = r.buffer
        /\ returned' = r.result
        /\ read_chunk' = read.data
        /\ arrived' = IF r.cleared THEN <<>> ELSE arrived \o read.data
        /\ state' = IF r.result.tag = "Some" THEN "MessageReceived" ELSE state
        /\ received' = IF r.result.tag = "Some" THEN r.result.val ELSE received
        /\ UNCHANGED notRead

\* usb_handler.clear_buffer(), with state = WaitingForMessage (reset) or, in
\* the Configured arm, without
ClearBuffer ==
    \E reset \in BOOLEAN :
        /\ message_buffer' = <<>>
        /\ arrived' = <<>>
        /\ read_chunk' = <<>>
        /\ returned' = Unset
        /\ state' = IF reset THEN "WaitingForMessage" ELSE state
        /\ UNCHANGED received
        /\ UNCHANGED notRead

ReadNext ==
    \/ TryReadMessage
    \/ ClearBuffer

ReadSpec == ReadInit /\ [][ReadNext]_vars

---------------------------------------------------------------------------
(* The response (UsbMessageHandler::send_signed_response, stm32/src/usb.rs, *)
(* and format_hex, stm32/src/signing.rs).  The function hands a fixed       *)
(* succession of byte strings to send_chunked: the three literals, the      *)
(* message, and the contents of the 64-byte hex buffer each time it is      *)
(* flushed; send_chunked offers the string to serial.write 32 bytes at a    *)
(* time and moves on by what the port accepted.  One step is one call of    *)
(* serial.write, whose result is an input.  Characters are ASCII codes.     *)

\* const CHUNK_SIZE
CHUNK_SIZE == 32

\* hex_buffer.len()
HexBufferLen == 64

\* b"0123456789ABCDEF"
HEX_CHARS == <<48, 49, 50, 51, 52, 53, 54, 55, 56, 57, 65, 66, 67, 68, 69, 70>>

format_hex(byte) == <<HEX_CHARS[(byte \div 16) + 1], HEX_CHARS[(byte % 16) + 1]>>

\* b"SIGNED:\n"
SignedHeader == <<83, 73, 71, 78, 69, 68, 58, 10>>

\* b"\nSIGNATURE:\n"
SignatureHeader == <<10, 83, 73, 71, 78, 65, 84, 85, 82, 69, 58, 10>>

\* b"\nPUBLIC_KEY:\n"
PublicKeyHeader == <<10, 80, 85, 66, 76, 73, 67, 95, 75, 69, 89, 58, 10>>

\* b"\n"
Newline == <<10>>

\* the buffer is flushed before a byte that would not leave a free position
FlushDue(hex_pos) == hex_pos + 2 >= HexBufferLen

\* one round of the hex loop; st is [hex_buffer, hex_pos, calls, panicked]:
\* hex_buffer an array whose position p is element p + 1, calls the strings
\* flushed, panicked set when the round indexes the array out of bounds
HexStep(st, byte) ==
    LET hex == format_hex(byte)
        flush == FlushDue(st.hex_pos)
        pos == IF flush THEN 0 ELSE st.hex_pos
        calls == IF flush
                 THEN Append(st.calls, SubSeq(st.hex_buffer, 1, st.hex_pos))
                 ELSE st.calls
    IN  IF pos + 2 > HexBufferLen
        THEN [st EXCEPT !.calls = calls, !.panicked = TRUE]
        ELSE [hex_buffer |->
                  SubSeq(st.hex_buffer, 1, pos) \o hex
                      \o SubSeq(st.hex_buffer, pos + 3, HexBufferLen),
              hex_pos |-> pos + 2,
              calls |-> calls,
              panicked |-> FALSE]

\* the rounds for bytes[lo..hi], in order
RECURSIVE HexRange(_, _, _, _)
HexRange(st, bytes, lo, hi) ==
    IF st.panicked \/ lo > hi THEN st
    ELSE IF lo = hi THEN HexStep(st, bytes[lo])
    ELSE LET mid == (lo + hi) \div 2
         IN  HexRange(HexRange(st, bytes, lo, mid), bytes, mid + 1, hi)

\* the hex loop over bytes and the send of what is left in the buffer; the
\* buffer is entered as the previous loop left it, with hex_pos = 0
HexLoop(hex_buffer, bytes) ==
    LET st == HexRange([hex_buffer |-> hex_buffer, hex_pos |-> 0,
                        calls |-> <<>>, panicked |-> FALSE],
                       bytes, 1, Len(bytes))
    IN  [hex_buffer |-> st.hex_buffer,
         calls |-> IF ~st.panicked /\ st.hex_pos > 0
                   THEN Append(st.calls, SubSeq(st.hex_buffer, 1, st.hex_pos))
                   ELSE st.calls,
         panicked |-> st.panicked]

\* the arguments of the send_chunked calls the function makes, in order, when
\* none of them fails, and whether it panics after the last of them
send_calls(message, sig_bytes, pk_bytes) ==
    LET sig_hex == HexLoop([i \in 1..HexBufferLen |-> 0], sig_bytes)
        pk_hex == HexLoop(sig_hex.hex_buffer, pk_bytes)
        to_sig == <<SignedHeader, message, SignatureHeader>> \o sig_hex.calls
    IN  IF sig_hex.panicked THEN [calls |-> to_sig, panics |-> TRUE]
        ELSE IF pk_hex.panicked
        THEN [calls |-> to_sig \o <<PublicKeyHeader>> \o pk_hex.calls,
              panics |-> TRUE]
        ELSE [calls |-> to_sig \o <<PublicKeyHeader>> \o pk_hex.calls
                            \o <<Newline>>,
              panics |-> FALSE]

\* offset + CHUNK_SIZE, or the end of the data
ChunkEnd(data, off) ==
    IF off + CHUNK_SIZE < Len(data) THEN off + CHUNK_SIZE ELSE Len(data)

\* the offset after a write that dropped what the port did not accept
AdvanceChunk(off, written, end) == end

\* offset += written
Advance(off, written, end) == off + written

\* the arguments the function is called with: a message, a signature and a
\* public key of several lengths around the capacity of the hex buffer
Messages == {<<>>, <<104, 105>>}

SignatureLengths == {0, 1, 31, 32, 62, 63}

PublicKeyLengths == {1, 32}

\* len bytes, all residues of the high and the low hex digit among them
ByteString(first, len) == [i \in 1..len |-> (first + 29 * (i - 1)) % 256]

notSend == <<codecVars, signVars, fwVars, readVars>>

SendInit ==
    /\ CodecIdle
    /\ SignIdle
    /\ FirmwareStart
    /\ ReadIdle
    /\ message_arg \in Messages
    /\ signature \in {ByteString(57, len) : len \in SignatureLengths}
    /\ public_key \in {ByteString(9, len) : len \in PublicKeyLengths}
    /\ plan = send_calls(message_arg, signature, public_key)
    /\ call = 1
    /\ offset = 0
    /\ wire = <<>>
    /\ partial = FALSE
    /\ blocked = FALSE
    /\ send_pc = "sending"

\* the argument of the running send_chunked call
Data == plan.calls[call]

\* serial.write(chunk) returns Ok(written) with written > 0
WriteAccepted ==
    /\ send_pc = "sending"
    /\ offset < Len(Data)
    /\ LET end == ChunkEnd(Data, offset)
       IN  \E written \in 1..(end - offset) :
               /\ wire' = wire \o SubSeq(Data, offset + 1, offset + written)
               /\ offset' = Advance(offset, written, end)
               /\ partial' = (partial \/ written < end - offset)
    /\ UNCHANGED <<message_arg, signature, public_key, plan, call, blocked,
                   send_pc>>
    /\ UNCHANGED notSend

\* serial.write(chunk) returns Err(WouldBlock): the busy wait begins
WriteWouldBlock ==
    /\ send_pc = "sending"
    /\ offset < Len(Data)
    /\ blocked' = TRUE
    /\ send_pc' = "spinning"
    /\ UNCHANGED <<message_arg, signature, public_key, plan, call, offset,
                   wire, partial>>
    /\ UNCHANGED notSend

\* the busy wait ends and "continue" offers the same chunk again; the loop
\* counts no retries
SpinDone ==
    /\ send_pc = "spinning"
    /\ send_pc' = "sending"
    /\ UNCHANGED <<message_arg, signature, public_key, plan, call, offset,
                   wire, partial, blocked>>
    /\ UNCHANGED notSend

\* serial.write(chunk) returns Ok(0) or another error: send_chunked returns
\* false and the function returns early
WriteFails ==
    /\ send_pc = "sending"
    /\ offset < Len(Data)
    /\ send_pc' = "failed"
    /\ UNCHANGED <<message_arg, signature, public_key, plan, call, offset,
                   wire, partial, blocked>>
    /\ UNCHANGED notSend

\* the while loop of send_chunked ends, send_chunked returns true, and the
\* function goes on to its next send_chunked call or ends
SendChunkedReturns ==
    /\ send_pc = "sending"
    /\ offset >= Len(Data)
    /\ IF call = Len(plan.calls)
       THEN /\ send_pc' = IF plan.panics THEN "panicked" ELSE "returned"
            /\ UNCHANGED <<call, offset>>
       ELSE /\ call' = call + 1
            /\ offset' = 0
            /\ UNCHANGED send_pc
    /\ UNCHANGED <<message_arg, signature, public_key, plan, wire, partial,
                   blocked>>
    /\ UNCHANGED notSend

SendNext ==
    \/ WriteAccepted
    \/ WriteWouldBlock
    \/ SpinDone
    \/ WriteFails
    \/ SendChunkedReturns

SendSpec == SendInit /\ [][SendNext]_vars

---------------------------------------------------------------------------
(* The main loop with the response written out: the Signing arm calls       *)
(* sign_message, then send_signed_response runs write by write as above,    *)
(* and when it has returned the arm clears the buffer and resets the state. *)
(* The processor never stops: some step of the loop is always taken.        *)

\* the signature and the public key handed to send_signed_response (one
\* byte each; their lengths decide only how many writes there are)
LiveSignature == ByteString(57, 1)

LivePublicKey == ByteString(9, 1)

\* an iteration that does not enter the Signing arm
LoopIteration ==
    /\ send_pc = "idle"
    /\ \/ IterationNotReady
       \/ IterationWaiting
       \/ IterationMessageReceived

\* the Signing arm as far as the call of send_signed_response
SigningBegin ==
    \E current \in UsbDeviceStates :
        LET h == HandleUsbState(current)
            message == h.buffer
        IN
        /\ send_pc = "idle"
        /\ usb_ready(h.usb)
        /\ h.st = "Signing"
        /\ h.usb # "Disconnected"
        /\ SendLoop(0, h.usb) > 0
        /\ last_usb_state' = current
        /\ usb_state' = h.usb
        /\ message_buffer' = h.buffer
        /\ state' = h.st
        /\ signed' = Some(message)
        /\ send_attempts' = 0
        /\ sent' = Some(message)
        /\ delivered' = FALSE
        /\ button' = FALSE
        /\ message_arg' = message
        /\ signature' = LiveSignature
        /\ public_key' = LivePublicKey
        /\ plan' = send_calls(message, LiveSignature, LivePublicKey)
        /\ call' = 1
        /\ offset' = 0
        /\ wire' = <<>>
        /\ partial' = FALSE
        /\ blocked' = FALSE
        /\ send_pc' = "sending"
        /\ UNCHANGED <<received, confirmed>>
        /\ UNCHANGED <<codecVars, signVars, readVars>>

\* send_signed_response has returned, early or not: the rest of the arm
SigningEnd ==
    /\ send_pc \in {"returned", "failed"}
    /\ send_attempts' = SendLoop(0, usb_state)
    /\ delivered' = (send_pc = "returned")
    /\ message_buffer' = <<>>
    /\ state' = "WaitingForMessage"
    /\ confirmed' = FALSE
    /\ message_arg' = <<>>
    /\ signature' = <<>>
    /\ public_key' = <<>>
    /\ plan' = [calls |-> <<>>, panics |-> FALSE]
    /\ call' = 0
    /\ offset' = 0
    /\ wire' = <<>>
    /\ partial' = FALSE
    /\ blocked' = FALSE
    /\ send_pc' = "idle"
    /\ UNCHANGED <<usb_state, last_usb_state, received, button, signed, sent>>
    /\ UNCHANGED <<codecVars, signVars, readVars>>

LiveNext ==
    \/ LoopIteration
    \/ SigningBegin
    \/ WriteAccepted
    \/ WriteWouldBlock
    \/ SpinDone
    \/ WriteFails
    \/ SendChunkedReturns
    \/ SigningEnd

LiveSpec == FirmwareInit /\ [][LiveNext]_vars /\ WF_vars(LiveNext)

---------------------------------------------------------------------------
(* The encoding as the format defines it, independent of the decoder: a     *)
(* coefficient is a sign bit, seven low bits, a run of zero bits and a      *)
(* terminating one bit.                                                     *)

Decoded == pc \in {"decoded", "recompressed"}

\* the position of the terminator of the coefficient starting at bit start,
\* or -1 when the input ends before it
FirstOne(s, i) ==
    LET stop == FirstSet(s, i, BitLen(s))
    IN  IF stop >= BitLen(s) THEN -1 ELSE stop

TerminatorOf(s, start) == FirstOne(s, start + 8)

\* the position of the terminator of the k-th coefficient counted from the
\* one starting at bit start (k >= 1), or -1 when the input ends before it
\* the first bit after the k coefficients that start at bit start, or -1
\* when the input ends before the terminator of one of them
RECURSIVE SkipCoefficients(_, _, _)
SkipCoefficients(s, start, k) ==
    IF start = -1 THEN -1
    ELSE IF k = 0 THEN start
    ELSE IF k = 1
    THEN LET t == TerminatorOf(s, start) IN IF t = -1 THEN -1 ELSE t + 1
    ELSE SkipCoefficients(s, SkipCoefficients(s, start, k \div 2), k - (k \div 2))

NthTerminator(s, start, k) ==
    LET after == SkipCoefficients(s, start, k)
    IN  IF after = -1 THEN -1 ELSE after - 1

\* the first bit of the k-th coefficient (k >= 1, its predecessors present)
CoeffStart(s, k) == IF k = 1 THEN 0 ELSE NthTerminator(s, 0, k - 1) + 1

\* the coefficient starting at bit start is sign 1, low 0, high 0
IsNegativeZero(s, start) ==
    /\ start + 8 < BitLen(s)
    /\ Bit(s, start) = 1
    /\ \A j \in 1..7 : Bit(s, start + j) = 0
    /\ Bit(s, start + 8) = 1

\* the encoded length of a vector: 9 + (|c| >> 7) bits for each coefficient
RECURSIVE EncodedRange(_, _, _)
EncodedRange(vec, lo, hi) ==
    IF lo > hi THEN 0
    ELSE IF lo = hi THEN 9 + (Abs(vec[lo]) \div 128)
    ELSE LET mid == (lo + hi) \div 2
         IN  EncodedRange(vec, lo, mid) + EncodedRange(vec, mid + 1, hi)

EncodedBits(vec) == EncodedRange(vec, 1, Len(vec))

---------------------------------------------------------------------------
(* C2: decompress is total: it ends by returning a vector or failure,      *)
(* never by indexing outside the input or by an arithmetic overflow.       *)
DecompressTotal == Decoded => recovered.tag \in {"Some", "None"}

(* C5: decompress returns failure for every input that ends before the     *)
(* terminator of the n-th coefficient.                                     *)
TruncatedRejected ==
    (Decoded /\ NthTerminator(x, 0, n) = -1) => recovered = None

(* C6: decompress returns failure whenever a bit after the terminator of   *)
(* the n-th coefficient is set, in the partially used byte or a later one. *)
PaddingRejected ==
    (Decoded /\ NthTerminator(x, 0, n) # -1
       /\ \E i \in (NthTerminator(x, 0, n) + 1)..(BitLen(x) - 1) : Bit(x, i) = 1)
    => recovered = None

(* C7: decompress returns failure whenever one of the n coefficients, in   *)
(* whatever position, is encoded as negative zero.                         *)
NegativeZeroRejected ==
    (Decoded /\ NthTerminator(x, 0, n) # -1
       /\ \E k \in 1..n : IsNegativeZero(x, CoeffStart(x, k)))
    => recovered = None

(* C4: for a non-empty vector of coefficients below 2048 in absolute value *)
(* that fits the buffer, decompress(compress(v, byte_length), len(v))      *)
(* returns v, and compressing the recovered vector yields the same bytes.  *)
RoundTrip ==
    (Decoded /\ tampered = "no" /\ n = Len(v) /\ \A i \in 1..Len(v) : Abs(v[i]) < 2048)
    => /\ recovered = Some(v)
       /\ pc = "recompressed" => recompressed = compressed

(* C8: for a non-empty vector, compress returns failure exactly when the   *)
(* encoded length exceeds 8 * byte_length, and a buffer otherwise.         *)
CompressFailsIffOverBudget ==
    (pc # "init" /\ v # <<>>)
    => /\ compressed.tag \in {"Some", "None"}
       /\ compressed.tag = "None" <=> EncodedBits(v) > 8 * byte_length

---------------------------------------------------------------------------
(* C15: decompress rejects a unary part of 95 or more zero bits in every   *)
(* position, the last included, so every coefficient it returns is at most *)
(* 94 * 128 + 127 = 12159 in absolute value.                               *)
HighRunRejected ==
    (Decoded /\ recovered.tag = "Some")
    => \A k \in 1..Len(recovered.val) : Abs(recovered.val[k]) <= 94 * 128 + 127

(* C16: the encoding is canonical: whenever decompress(x, n) returns a     *)
(* vector, compress of that vector into len(x) bytes returns exactly x.    *)
Canonical == pc = "recompressed" => recompressed = Some(x)

(* C17, as stated: for every vector and every byte length, compress and    *)
(* compress_slow return the same result.                                   *)
CompressEquivalent == pc = "compared" => slow = compressed

(* C17, amended: for every non-empty vector with no coefficient equal to   *)
(* -32768 and every byte length, compress and compress_slow return the     *)
(* same result.                                                            *)
CompressEquivalentNonEmpty ==
    (pc = "compared" /\ v # <<>> /\ \A i \in 1..Len(v) : v[i] # -32768)
    => slow = compressed

(* C18: compress never writes outside its buffer, whatever the vector and  *)
(* the byte length, and the empty vector yields failure.                   *)
CompressNeverCrashes ==
    /\ pc # "init" => /\ compressed.tag \in {"Some", "None"}
                      /\ v = <<>> => compressed = None
    /\ pc = "recompressed" => recompressed.tag \in {"Some", "None"}

---------------------------------------------------------------------------
(* C11: the signing retry loop runs at most its cap of iterations: every   *)
(* pass through the sampler uses up one of them, and with the cap used up   *)
(* the only step left is the error, which comes without a signature.        *)
RetryBounded ==
    /\ [](attempts <= RetryCap)
    /\ [](sign_pc = "failed" => attempts = RetryCap /\ sig = <<>>)
    /\ [][sign_pc = "sample" =>
            \/ attempts < RetryCap /\ attempts' = attempts + 1
            \/ attempts = RetryCap /\ sign_pc' = "failed"]_vars

(* C12: a signature serialises to 666 bytes: the header byte 0x39, the 40  *)
(* salt bytes, and a payload of 625 bytes, the length asked of compress,   *)
(* whose bits after the terminator of the last coefficient are all zero.   *)
SignatureLayout ==
    /\ sign_pc \in {"emit", "done"} =>
          /\ Len(payload.val) = SigLen - 1 - SaltLen
          /\ Len(payload.val) = 625
          /\ NthTerminator(payload.val, 0, FalconN) # -1
          /\ \A i \in (NthTerminator(payload.val, 0, FalconN) + 1)..(BitLen(payload.val) - 1) :
                Bit(payload.val, i) = 0
    /\ sign_pc = "done" =>
          /\ Len(sig) = 666
          /\ sig[1] = 57
          /\ SubSeq(sig, 2, 41) = salt
          /\ SubSeq(sig, 42, 666) = payload.val

---------------------------------------------------------------------------
(* C13: sign_message is called only in state Signing, Signing is entered   *)
(* only from MessageReceived in an iteration in which a button reads high, *)
(* and so a message is signed only after a button was read high since it   *)
(* was received.                                                            *)
SignsOnlyAfterConfirmation ==
    /\ [][signed'.tag = "Some" => state = "Signing"]_vars
    /\ [][(state' = "Signing" /\ state # "Signing")
            => (state = "MessageReceived" /\ button')]_vars
    /\ [][signed'.tag = "Some" => confirmed]_vars

(* C19: in state MessageReceived or Signing the message buffer is          *)
(* non-empty and equal to the message try_read_message returned, and the   *)
(* bytes handed to sign_message are that message.                          *)
BufferHoldsMessage ==
    /\ state \in {"MessageReceived", "Signing"}
          => (message_buffer # <<>> /\ message_buffer = received)
    /\ signed.tag = "Some" => signed.val = received

(* C20: whenever usb_state is Disconnected the signing state is            *)
(* WaitingForMessage and the message buffer is empty, and the iteration    *)
(* that found the connection gone has neither signed nor sent anything.    *)
DisconnectDiscards ==
    usb_state = "Disconnected"
    => /\ state = "WaitingForMessage"
       /\ message_buffer = <<>>
       /\ signed = None
       /\ sent = None

---------------------------------------------------------------------------
(* Witnesses: reachable states in which each claim's case has happened.    *)

\* C4: a vector of two or more coefficients that fills the buffer to its last
\* bit was compressed, decoded and compressed again, all three agreeing
RoundTripWitness ==
    /\ pc = "recompressed"
    /\ tampered = "no"
    /\ n = Len(v)
    /\ Len(v) >= 2
    /\ EncodedBits(v) = 8 * byte_length
    /\ recovered = Some(v)
    /\ recompressed = compressed

\* C6: a complete encoding of n coefficients whose only set padding bit lies
\* in a byte after the partially used one was decoded and rejected
PaddingRejectedWitness ==
    /\ Decoded
    /\ tampered = "flipped"
    /\ n = Len(v)
    /\ NthTerminator(x, 0, n) # -1
    /\ \E i \in (8 * ((NthTerminator(x, 0, n) \div 8) + 1))..(BitLen(x) - 1) :
          Bit(x, i) = 1
    /\ recovered = None

\* C7: the sign bit of an encoded zero was set in transit; three coefficients
\* were decoded, the first of them (and no other) a negative zero, and the
\* input was rejected
NegativeZeroRejectedWitness ==
    /\ Decoded
    /\ tampered = "flipped"
    /\ Len(v) = 3
    /\ v[1] = 0
    /\ n = 3
    /\ NthTerminator(x, 0, 3) # -1
    /\ IsNegativeZero(x, CoeffStart(x, 1))
    /\ ~IsNegativeZero(x, CoeffStart(x, 2))
    /\ ~IsNegativeZero(x, CoeffStart(x, 3))
    /\ recovered = None

\* C8: a non-empty vector one bit longer than the budget was refused
CompressFailsWitness ==
    /\ pc = "compressed"
    /\ v # <<>>
    /\ EncodedBits(v) = 8 * byte_length + 1
    /\ compressed = None


\* C17: a vector of two or more coefficients that fills the buffer to its last
\* bit was encoded by both encoders, and the bytes agree
CompressEquivalentWitness ==
    /\ pc = "compared"
    /\ Len(v) >= 2
    /\ slow = compressed
    /\ compressed.tag = "Some"
    /\ EncodedBits(v) = 8 * byte_length

\* C18: a vector whose last coefficient ends on the last bit of the buffer
\* was written without a fault
CompressNeverCrashesWitness ==
    /\ pc = "compressed"
    /\ Len(v) >= 2
    /\ EncodedBits(v) = 8 * byte_length
    /\ compressed.tag = "Some"

\* C11: the sampler ran as often as the cap allows, none of the runs led to
\* a signature, and signing has ended with the error
RetryBoundedWitness ==
    /\ sign_pc = "failed"
    /\ attempts = RetryCap
    /\ payload = None
    /\ sig = <<>>

\* C12: a signature was emitted after a retry, its payload holding 392
\* ten-bit and 120 nine-bit coefficients that fill the 625 bytes to the last
\* bit
SignatureLayoutWitness ==
    /\ sign_pc = "done"
    /\ attempts >= 2
    /\ s2[1] = -128
    /\ s2[FalconN] = -1
    /\ EncodedBits(s2) = 8 * 625
    /\ Len(sig) = 666

\* C13: a message was received, a button was read high after that, and the
\* message was handed to sign_message
SignsOnlyAfterConfirmationWitness ==
    /\ signed.tag = "Some"
    /\ received # <<>>
    /\ signed.val = received
    /\ state = "WaitingForMessage"

\* C20: the connection went while a confirmed message was waiting to be
\* signed: nothing was signed, the buffer is empty, the state is back at
\* WaitingForMessage
DisconnectDiscardsWitness ==
    /\ usb_state = "Disconnected"
    /\ received # <<>>
    /\ confirmed
    /\ state = "WaitingForMessage"
    /\ message_buffer = <<>>
    /\ signed = None

---------------------------------------------------------------------------
(* The response as the protocol defines it, independent of the sender.      *)

\* the uppercase hex digit of a value 0..15
UpperDigit(d) == IF d < 10 THEN 48 + d ELSE 65 + (d - 10)

\* two uppercase hex digits per byte, high digit first
HexOf(bytes) ==
    [k \in 1..(2 * Len(bytes)) |->
        IF k % 2 = 1 THEN UpperDigit(bytes[(k + 1) \div 2] \div 16)
        ELSE UpperDigit(bytes[k \div 2] % 16)]

Response ==
    <<83, 73, 71, 78, 69, 68, 58, 10>> \o message_arg
        \o <<10, 83, 73, 71, 78, 65, 84, 85, 82, 69, 58, 10>> \o HexOf(signature)
        \o <<10, 80, 85, 66, 76, 73, 67, 95, 75, 69, 89, 58, 10>> \o HexOf(public_key)
        \o <<10>>

(* C14: when no write fails (each accepts at least one byte of its chunk,   *)
(* after being offered again if the port was busy), the bytes the port has  *)
(* accepted when send_signed_response returns are "SIGNED:" newline, the   *)
(* message, newline "SIGNATURE:" newline, the uppercase hex of the          *)
(* signature, newline "PUBLIC_KEY:" newline, the uppercase hex of the       *)
(* public key, newline; and while it runs they are the beginning of that.   *)
ResponseExact ==
    /\ send_pc = "returned" => wire = Response
    /\ send_pc \in {"sending", "spinning", "failed"} =>
           /\ Len(wire) <= Len(Response)
           /\ wire = SubSeq(Response, 1, Len(wire))

\* C14: a response was sent whole whose signature filled the hex buffer
\* twice and left one byte over and whose public key filled it once, with a
\* write that accepted part of its chunk and a write that was refused
ResponseExactWitness ==
    /\ send_pc = "returned"
    /\ Len(signature) = 63
    /\ Len(public_key) = 32
    /\ message_arg # <<>>
    /\ partial
    /\ blocked
    /\ Len(wire) = 8 + 2 + 12 + 126 + 13 + 64 + 1

(* C22: an iteration that runs the Signing arm (it hands the message to     *)
(* sign_message) calls send_signed_response at most once, send_attempts     *)
(* ending at no more than 1, and ends with the message buffer empty and     *)
(* the state WaitingForMessage, whether the response went out whole or not. *)
SendsOnceAndResets ==
    signed.tag = "Some" =>
        /\ send_attempts <= 1
        /\ send_attempts < max_attempts
        /\ sent \in {None, signed}
        /\ message_buffer = <<>>
        /\ state = "WaitingForMessage"

\* C22: the Signing arm ran, made its one send attempt, the response did not
\* go out whole, and the buffer is empty and the state WaitingForMessage
SendsOnceAndResetsWitness ==
    /\ signed.tag = "Some"
    /\ signed.val # <<>>
    /\ sent = signed
    /\ send_attempts = 1
    /\ ~delivered
    /\ message_buffer = <<>>
    /\ state = "WaitingForMessage"

---------------------------------------------------------------------------
(* A message as the protocol defines it, independent of the handler.        *)

\* the position of the last byte of s that is not a newline, a carriage
\* return, a space or a tab; 0 when there is none
LastVisible(s) ==
    LET visible == {i \in 1..Len(s) : s[i] \notin {10, 13, 32, 9}}
    IN  IF visible = {} THEN 0
        ELSE CHOOSE i \in visible : \A j \in visible : j <= i

\* s without its trailing newlines, carriage returns, spaces and tabs
Stripped(s) == SubSeq(s, 1, LastVisible(s))

HasLineEnd(s) == \E i \in 1..Len(s) : s[i] \in {10, 13}

(* C23: try_read_message returns a message only on a read whose chunk       *)
(* contains a newline or a carriage return; the message is all the bytes    *)
(* received since the buffer was last cleared, in order of arrival, less    *)
(* the trailing newlines, carriage returns, spaces and tabs, and is not     *)
(* empty; and a read that ends a line of nothing but those characters       *)
(* returns no message and leaves the buffer empty.                          *)
ReadReturnsLine ==
    /\ [](returned.tag = "Some" =>
            /\ HasLineEnd(read_chunk)
            /\ returned.val = Stripped(arrived)
            /\ returned.val # <<>>
            /\ message_buffer = returned.val)
    /\ [][(/\ returned' # Unset
           /\ HasLineEnd(read_chunk')
           /\ Len(arrived) + Len(read_chunk') <= MAX_MESSAGE_SIZE
           /\ Stripped(arrived \o read_chunk') = <<>>)
          => (returned' = None /\ message_buffer' = <<>>)]_vars

\* C23: a message was returned that arrived in two reads, the second with
\* the line end, and lost a trailing space and newline
ReadReturnsLineWitness ==
    /\ returned = Some(<<97>>)
    /\ arrived = <<97, 32, 10>>
    /\ read_chunk = <<32, 10>>
    /\ message_buffer = <<97>>
    /\ state = "MessageReceived"

(* C21: whenever a message has been received (state MessageReceived), the   *)
(* connection stays Connected from then on and a button is read high at     *)
(* some time, the firmware at some time has signed, has put the whole       *)
(* response on the wire and is back in WaitingForMessage.                   *)
SignsSendsAndReturns ==
    []((/\ state = "MessageReceived"
        /\ [](usb_state = "Connected")
        /\ <>button)
       => <>(/\ state = "WaitingForMessage"
             /\ signed.tag = "Some"
             /\ sent = signed
             /\ delivered))

\* with no write refused and none failing, the same holds: the responses
\* that are lost or never finished are lost in send_chunked
SignsSendsAndReturnsWhenAccepted ==
    []((/\ state = "MessageReceived"
        /\ [](usb_state = "Connected")
        /\ [](~blocked /\ send_pc # "failed")
        /\ <>button)
       => <>(/\ state = "WaitingForMessage"
             /\ signed.tag = "Some"
             /\ sent = signed
             /\ delivered))

====
